---- MODULE Spec2Model ----
(***************************************************************************)
(* WireGuard configuration validator (src/validators/wireguard.js).        *)
(*                                                                         *)
(* A JavaScript string is a sequence of one-character strings.  A          *)
(* JavaScript value is a record [t, s, n]: its type tag, its string        *)
(* conversion String(v) and, for a number, its integer value.              *)
(***************************************************************************)
EXTENDS Integers, Sequences, FiniteSets, TLC

VARIABLES pc, fn, arg, formData, sections, result, answer,
          lastIndex, heap, log,
          currentSection, lineNo,
          request, responses, qrCodes

\* what lives across calls: the lastIndex of the patterns of the table, the
\* arrays allocated so far, the calls made so far
callVars == <<lastIndex, heap, log>>
\* the locals of the loop of parseConfigSections
parserVars == <<currentSection, lineNo>>
\* a request of the server, the responses sent for it, the QR encodings made
serverVars == <<request, responses, qrCodes>>

vars == <<pc, fn, arg, formData, sections, result, answer, callVars, parserVars, serverVars>>

----------------------------------------------------------------------------
(* Characters *)

Digit == {"0", "1", "2", "3", "4", "5", "6", "7", "8", "9"}

Upper == {"A", "B", "C", "D", "E", "F", "G", "H", "I", "J", "K", "L", "M",
          "N", "O", "P", "Q", "R", "S", "T", "U", "V", "W", "X", "Y", "Z"}

Lower == {"a", "b", "c", "d", "e", "f", "g", "h", "i", "j", "k", "l", "m",
          "n", "o", "p", "q", "r", "s", "t", "u", "v", "w", "x", "y", "z"}

AlNum == Upper \cup Lower \cup Digit

HexDigit == Digit \cup {"a", "b", "c", "d", "e", "f", "A", "B", "C", "D", "E", "F"}

\* the characters String.prototype.trim removes and parseInt skips
\* (those of them the inputs use)
WhiteSpace == {" ", "\t", "\r", "\n", "\f"}

----------------------------------------------------------------------------
(* JavaScript values *)

RECURSIVE NumToStr(_)
NumToStr(n) ==
    IF n < 0 THEN <<"-">> \o NumToStr(0 - n)
    ELSE IF n < 10 THEN <<CHOOSE d \in Digit : d = ToString(n)>>
    ELSE NumToStr(n \div 10) \o NumToStr(n % 10)

Undefined == [t |-> "undefined", s |-> <<"u","n","d","e","f","i","n","e","d">>, n |-> 0]
Null == [t |-> "null", s |-> <<"n","u","l","l">>, n |-> 0]
Str(s) == [t |-> "string", s |-> s, n |-> 0]
Num(n) == [t |-> "number", s |-> NumToStr(n), n |-> n]
ObjectStr == <<"[","o","b","j","e","c","t"," ","O","b","j","e","c","t","]">>
Obj == [t |-> "object", s |-> ObjectStr, n |-> 0]

\* Array.prototype.join / the separator-joined text of a list of strings
RECURSIVE Join(_, _)
Join(list, sep) ==
    IF Len(list) = 0 THEN <<>>
    ELSE IF Len(list) = 1 THEN list[1]
    ELSE list[1] \o sep \o Join(Tail(list), sep)

\* an array of strings; String(array) joins the elements with ","
Arr(elems) == [t |-> "array", s |-> Join(elems, <<",">>), n |-> 0]

\* ToBoolean: the test of `!x` and `if (x)`
Truthy(v) ==
    CASE v.t = "string" -> Len(v.s) > 0
      [] v.t = "number" -> v.n # 0
      [] v.t \in {"array", "object"} -> TRUE
      [] OTHER -> FALSE

IsString(v) == v.t = "string"

----------------------------------------------------------------------------
(* String methods *)

RECURSIVE TrimStart(_)
TrimStart(s) ==
    IF Len(s) > 0 /\ s[1] \in WhiteSpace THEN TrimStart(Tail(s)) ELSE s

RECURSIVE TrimEnd(_)
TrimEnd(s) ==
    IF Len(s) > 0 /\ s[Len(s)] \in WhiteSpace
    THEN TrimEnd(SubSeq(s, 1, Len(s) - 1)) ELSE s

\* String.prototype.trim
Trim(s) == TrimEnd(TrimStart(s))

\* index of the first occurrence of character c in s at or after i; 0 if none
IndexOf(s, c, i) ==
    LET hits == {j \in i..Len(s) : s[j] = c}
    IN  IF hits = {} THEN 0 ELSE CHOOSE j \in hits : \A k \in hits : j <= k

\* String.prototype.includes for a one-character needle
Includes(s, c) == IndexOf(s, c, 1) # 0

\* String.prototype.split for a one-character separator
RECURSIVE Split(_, _)
Split(s, c) ==
    LET i == IndexOf(s, c, 1)
    IN  IF i = 0 THEN <<s>>
        ELSE <<SubSeq(s, 1, i - 1)>> \o Split(SubSeq(s, i + 1, Len(s)), c)

\* String.prototype.startsWith for a one-character prefix
StartsWith(s, c) == Len(s) > 0 /\ s[1] = c

\* Array.prototype.map(x => x.trim())
MapTrim(list) == [i \in 1..Len(list) |-> Trim(list[i])]

\* the value of a run of decimal digits
RECURSIVE DigitsValue(_)
DigitsValue(ds) ==
    IF Len(ds) = 0 THEN 0
    ELSE 10 * DigitsValue(SubSeq(ds, 1, Len(ds) - 1))
         + (CHOOSE k \in 0..9 : ToString(k) = ds[Len(ds)])

\* the longest prefix of s made of decimal digits
RECURSIVE DigitPrefix(_)
DigitPrefix(s) ==
    IF Len(s) > 0 /\ s[1] \in Digit THEN <<s[1]>> \o DigitPrefix(Tail(s)) ELSE <<>>

\* parseInt(v, 10): String(v), leading white space skipped, an optional sign,
\* then the longest run of digits; NaN when that run is empty
ParseInt(v) ==
    LET t == TrimStart(v.s)
        neg == Len(t) > 0 /\ t[1] = "-"
        signed == Len(t) > 0 /\ t[1] \in {"-", "+"}
        ds == DigitPrefix(IF signed THEN Tail(t) ELSE t)
    IN  IF Len(ds) = 0 THEN [nan |-> TRUE, n |-> 0]
        ELSE [nan |-> FALSE, n |-> IF neg THEN 0 - DigitsValue(ds) ELSE DigitsValue(ds)]

----------------------------------------------------------------------------
(* Regular expressions: a pattern is a tree of character classes, sequences *)
(* and bounded or unbounded repetitions; every pattern of the table is      *)
(* anchored with ^ and $.                                                   *)

Cls(S) == [op |-> "cls", set |-> S, subs |-> <<>>, min |-> 0, max |-> 0]
Cat(subs) == [op |-> "cat", set |-> {}, subs |-> subs, min |-> 0, max |-> 0]
\* r{min,max}; max = -1 is unbounded
Rep(r, min, max) == [op |-> "rep", set |-> {}, subs |-> <<r>>, min |-> min, max |-> max]

RECURSIVE Ends(_, _, _)
RECURSIVE CatEnds(_, _, _, _)
RECURSIVE RepEnds(_, _, _, _, _)

\* the positions just after a match of re that starts at a position of from
Ends(re, s, from) ==
    CASE re.op = "cls" -> {i + 1 : i \in {j \in from : j <= Len(s) /\ s[j] \in re.set}}
      [] re.op = "cat" -> CatEnds(re.subs, 1, s, from)
      [] re.op = "rep" -> RepEnds(re.subs[1], re.min, re.max, s, from)

CatEnds(subs, k, s, from) ==
    IF k > Len(subs) \/ from = {} THEN from
    ELSE CatEnds(subs, k + 1, s, Ends(subs[k], s, from))

RepEnds(r, min, max, s, from) ==
    IF from = {} \/ max = 0 THEN from
    ELSE IF r.op = "cls"
    THEN \* a run of min to max characters of the class
         LET most == IF max < 0 THEN Len(s) ELSE max
         IN  UNION {{j + n : n \in {k \in min..most :
                                      /\ j + k - 1 <= Len(s)
                                      /\ \A m \in j..(j + k - 1) : s[m] \in r.set}} :
                    j \in from}
    ELSE LET next == Ends(r, s, from)
             left == IF max > 0 THEN max - 1 ELSE max
         IN  IF min > 0 THEN RepEnds(r, min - 1, left, s, next)
             ELSE from \cup RepEnds(r, 0, left, s, next \ from)

\* RegExp.prototype.test of an anchored pattern
Test(re, s) == (Len(s) + 1) \in Ends(re, s, {1})

----------------------------------------------------------------------------
(* The pattern table *)

Base64 == AlNum \cup {"+", "/"}

\* a variant that takes one character less
base64KeyShort == Cat(<<Rep(Cls(Base64), 41, 41), Rep(Cls(Base64 \cup {"="}), 2, 2)>>)

\* /^[A-Za-z0-9+/]{42}[A-Za-z0-9+/=]{2}$/
base64Key == Cat(<<Rep(Cls(Base64), 42, 42), Rep(Cls(Base64 \cup {"="}), 2, 2)>>)

\* /^(\d{1,3}\.){3}\d{1,3}$/
ipv4 == Cat(<<Rep(Cat(<<Rep(Cls(Digit), 1, 3), Cls({"."})>>), 3, 3), Rep(Cls(Digit), 1, 3)>>)

\* /^(\d{1,3}\.){3}\d{1,3}\/\d{1,2}$/
cidrV4 == Cat(<<Rep(Cat(<<Rep(Cls(Digit), 1, 3), Cls({"."})>>), 3, 3), Rep(Cls(Digit), 1, 3),
               Cls({"/"}), Rep(Cls(Digit), 1, 2)>>)

\* a variant with {1,6} in place of {2,7}
cidrV6Narrow == Cat(<<Rep(Cat(<<Rep(Cls(HexDigit), 0, 4), Cls({":"})>>), 1, 6),
                      Rep(Cls(HexDigit), 0, 4), Cls({"/"}), Rep(Cls(Digit), 1, 3)>>)

\* /^([0-9a-fA-F]{0,4}:){2,7}[0-9a-fA-F]{0,4}\/\d{1,3}$/
cidrV6 == Cat(<<Rep(Cat(<<Rep(Cls(HexDigit), 0, 4), Cls({":"})>>), 2, 7),
                Rep(Cls(HexDigit), 0, 4), Cls({"/"}), Rep(Cls(Digit), 1, 3)>>)

\* /^[a-zA-Z0-9.-]+:\d{1,5}$/
endpoint == Cat(<<Rep(Cls(AlNum \cup {".", "-"}), 1, -1), Cls({":"}), Rep(Cls(Digit), 1, 5)>>)

\* [a-zA-Z0-9]([a-zA-Z0-9-]{0,61}[a-zA-Z0-9])?
domainLabel == Cat(<<Cls(AlNum), Rep(Cat(<<Rep(Cls(AlNum \cup {"-"}), 0, 61), Cls(AlNum)>>), 0, 1)>>)

\* /^label(\.label)*$/
domain == Cat(<<domainLabel, Rep(Cat(<<Cls({"."}), domainLabel>>), 0, -1)>>)

----------------------------------------------------------------------------
(* Field validators *)

isValidBase64Key(key) ==
    IF ~Truthy(key) \/ ~IsString(key) THEN FALSE
    ELSE Test(base64Key, Trim(key.s))

isValidIPv4(ip) ==
    IF ~Truthy(ip) \/ ~IsString(ip) THEN FALSE
    ELSE IF ~Test(ipv4, ip.s) THEN FALSE
    ELSE LET octets == Split(ip.s, ".")
         IN  \A i \in 1..Len(octets) :
                LET num == ParseInt(Str(octets[i]))
                IN  ~num.nan /\ num.n >= 0 /\ num.n <= 255

isValidCIDR(cidr) ==
    IF ~Truthy(cidr) \/ ~IsString(cidr) THEN FALSE
    ELSE IF Test(cidrV4, cidr.s)
         THEN LET parts == Split(cidr.s, "/")
                  prefixNum == ParseInt(Str(parts[2]))
              IN  isValidIPv4(Str(parts[1]))
                  /\ ~prefixNum.nan /\ prefixNum.n >= 0 /\ prefixNum.n <= 32
    ELSE IF Test(cidrV6, cidr.s)
         THEN LET parts == Split(cidr.s, "/")
                  prefixNum == ParseInt(Str(parts[2]))
              IN  ~prefixNum.nan /\ prefixNum.n >= 0 /\ prefixNum.n <= 128
    ELSE FALSE

\* a variant without the port range check
isValidEndpointAnyPort(ep) ==
    IF ~Truthy(ep) \/ ~IsString(ep) THEN FALSE
    ELSE IF ~Test(endpoint, ep.s) THEN FALSE
    ELSE LET host == Split(ep.s, ":")[1]
         IN  isValidIPv4(Str(host)) \/ Test(domain, host)

isValidEndpoint(ep) ==
    IF ~Truthy(ep) \/ ~IsString(ep) THEN FALSE
    ELSE IF ~Test(endpoint, ep.s) THEN FALSE
    ELSE LET parts == Split(ep.s, ":")
             host == parts[1]
             port == ParseInt(Str(parts[2]))
         IN  IF port.nan THEN isValidIPv4(Str(host)) \/ Test(domain, host)
             ELSE IF port.n < 1 \/ port.n > 65535 THEN FALSE
             ELSE isValidIPv4(Str(host)) \/ Test(domain, host)

----------------------------------------------------------------------------
(* Field names and section headers *)

kPrivateKey == <<"P", "r", "i", "v", "a", "t", "e", "K", "e", "y">>
kAddress == <<"A", "d", "d", "r", "e", "s", "s">>
kDNS == <<"D", "N", "S">>
kMTU == <<"M", "T", "U">>
kPublicKey == <<"P", "u", "b", "l", "i", "c", "K", "e", "y">>
kEndpoint == <<"E", "n", "d", "p", "o", "i", "n", "t">>
kAllowedIPs == <<"A", "l", "l", "o", "w", "e", "d", "I", "P", "s">>
kPreSharedKey == <<"P", "r", "e", "S", "h", "a", "r", "e", "d", "K", "e", "y">>
kPersistentKeepAlive ==
    <<"P", "e", "r", "s", "i", "s", "t", "e", "n", "t", "K", "e", "e", "p", "A", "l", "i", "v", "e">>
kProto == <<"_", "_", "p", "r", "o", "t", "o", "_", "_">>

InterfaceHeader == <<"[", "I", "n", "t", "e", "r", "f", "a", "c", "e", "]">>
PeerHeader == <<"[", "P", "e", "e", "r", "]">>

----------------------------------------------------------------------------
(* Section parser *)

\* a plain object {} as a map from property name to string value
EmptyObject == [k \in {} |-> <<>>]

\* a variant that keeps the first value stored under a key
SetPropertyKeepFirst(obj, key, value) ==
    IF key = kProto \/ key \in DOMAIN obj THEN obj
    ELSE [k \in DOMAIN obj \cup {key} |-> IF k = key THEN value ELSE obj[k]]

\* obj[key] = value, for a string value; assigning a string to __proto__
\* leaves a plain object unchanged
SetProperty(obj, key, value) ==
    IF key = kProto THEN obj
    ELSE [k \in DOMAIN obj \cup {key} |-> IF k = key THEN value ELSE obj[k]]

\* obj.key: the stored string, or undefined
GetProperty(obj, key) == IF key \in DOMAIN obj THEN Str(obj[key]) ELSE Undefined

\* Object.keys(obj).length
KeyCount(obj) == Cardinality(DOMAIN obj)

\* the state of the loop of parseConfigSections before its first line
ParseStart == [currentSection |-> "null", Interface |-> EmptyObject, Peer |-> EmptyObject]

\* a variant that takes every line starting with a header for that header
ParseLineLooseHeader(st, line) ==
    LET trimmed == Trim(line)
        begins(h) == Len(trimmed) >= Len(h) /\ SubSeq(trimmed, 1, Len(h)) = h
    IN  IF Len(trimmed) = 0 \/ StartsWith(trimmed, "#") THEN st
        ELSE IF begins(InterfaceHeader) THEN [st EXCEPT !.currentSection = "Interface"]
        ELSE IF begins(PeerHeader) THEN [st EXCEPT !.currentSection = "Peer"]
        ELSE IF st.currentSection # "null" /\ Includes(trimmed, "=")
             THEN LET parts == Split(trimmed, "=")
                      key == Trim(parts[1])
                      value == Trim(Join(Tail(parts), <<"=">>))
                  IN  IF st.currentSection = "Interface"
                      THEN [st EXCEPT !.Interface = SetProperty(@, key, value)]
                      ELSE [st EXCEPT !.Peer = SetProperty(@, key, value)]
        ELSE st

\* one iteration of the loop over the lines
ParseLine(st, line) ==
    LET trimmed == Trim(line)
    IN  IF Len(trimmed) = 0 \/ StartsWith(trimmed, "#") THEN st
        ELSE IF trimmed = InterfaceHeader THEN [st EXCEPT !.currentSection = "Interface"]
        ELSE IF trimmed = PeerHeader THEN [st EXCEPT !.currentSection = "Peer"]
        ELSE IF st.currentSection # "null" /\ Includes(trimmed, "=")
             THEN LET parts == Split(trimmed, "=")
                      key == Trim(parts[1])
                      value == Trim(Join(Tail(parts), <<"=">>))
                  IN  IF st.currentSection = "Interface"
                      THEN [st EXCEPT !.Interface = SetProperty(@, key, value)]
                      ELSE [st EXCEPT !.Peer = SetProperty(@, key, value)]
        ELSE st

RECURSIVE ParseLines(_, _, _)
ParseLines(st, lines, i) ==
    IF i > Len(lines) THEN st ELSE ParseLines(ParseLine(st, lines[i]), lines, i + 1)

parseConfigSections(configString) ==
    LET st == ParseLines(ParseStart, Split(configString, "\n"), 1)
    IN  [Interface |-> st.Interface, Peer |-> st.Peer]

----------------------------------------------------------------------------
(* Validation results.  An error string is its literal text msg followed by *)
(* detail, the interpolated `${invalid.join(', ')}` (empty for fixed texts). *)

Err(msg) == [msg |-> msg, detail |-> <<>>]
ErrList(msg, invalid) == [msg |-> msg, detail |-> Join(invalid, <<",", " ">>)]

NoResult == [kind |-> "none", valid |-> FALSE, errors |-> <<>>]
TypeError == [kind |-> "throw", valid |-> FALSE, errors |-> <<>>]
\* a variant that reports every result as valid
ReturnAlwaysValid(errors) == [kind |-> "return", valid |-> TRUE, errors |-> errors]

\* return { valid: errors.length === 0, errors }
Return(errors) == [kind |-> "return", valid |-> (Len(errors) = 0), errors |-> errors]

NotParsed == [parsed |-> FALSE, Interface |-> EmptyObject, Peer |-> EmptyObject]

\* list.filter(x => !isValidCIDR(x)) and list.filter(x => !isValidIPv4(x))
InvalidCIDRs(list) == SelectSeq(list, LAMBDA x : ~isValidCIDR(Str(x)))
InvalidIPv4s(list) == SelectSeq(list, LAMBDA x : ~isValidIPv4(Str(x)))

\* parseInt(v, 10) is NaN or outside [lo, hi]
OutOfRange(v, lo, hi) ==
    LET num == ParseInt(v) IN num.nan \/ num.n < lo \/ num.n > hi

----------------------------------------------------------------------------
(* validateWireguardConfig: the checks of the [Interface] section *)

CheckPrivateKey(iface) ==
    LET v == GetProperty(iface, kPrivateKey)
    IN  IF ~Truthy(v) THEN <<Err("PrivateKey is required in [Interface]")>>
        ELSE IF ~isValidBase64Key(v)
             THEN <<Err("Invalid PrivateKey format (must be 44-character base64 string)")>>
        ELSE <<>>

\* a variant that checks Address as one CIDR value, as the form path does
CheckAddressSingle(iface) ==
    LET v == GetProperty(iface, kAddress)
    IN  IF ~Truthy(v) THEN <<Err("Address is required in [Interface]")>>
        ELSE IF ~isValidCIDR(v)
             THEN <<ErrList("Invalid Address format (use CIDR notation, e.g., 10.0.0.2/24): ",
                            <<v.s>>)>>
        ELSE <<>>

CheckAddress(iface) ==
    LET v == GetProperty(iface, kAddress)
    IN  IF ~Truthy(v) THEN <<Err("Address is required in [Interface]")>>
        ELSE LET addresses == MapTrim(Split(v.s, ","))
                 invalidAddresses == InvalidCIDRs(addresses)
             IN  IF Len(invalidAddresses) > 0
                 THEN <<ErrList("Invalid Address format (use CIDR notation, e.g., 10.0.0.2/24): ",
                                invalidAddresses)>>
                 ELSE <<>>

CheckDNS(iface) ==
    LET v == GetProperty(iface, kDNS)
    IN  IF Truthy(v)
        THEN LET dnsServers == MapTrim(Split(v.s, ","))
                 invalidDNS == InvalidIPv4s(dnsServers)
             IN  IF Len(invalidDNS) > 0
                 THEN <<ErrList("Invalid DNS server format: ", invalidDNS)>>
                 ELSE <<>>
        ELSE <<>>

CheckMTU(iface) ==
    LET v == GetProperty(iface, kMTU)
    IN  IF Truthy(v) /\ OutOfRange(v, 576, 65535)
        THEN <<Err("Invalid MTU value (must be between 576 and 65535)")>>
        ELSE <<>>

\* a variant that checks DNS before Address
InterfaceErrorsDNSFirst(secs) ==
    IF KeyCount(secs.Interface) = 0 THEN <<Err("Missing [Interface] section")>>
    ELSE CheckPrivateKey(secs.Interface) \o CheckDNS(secs.Interface)
         \o CheckAddress(secs.Interface) \o CheckMTU(secs.Interface)

InterfaceErrors(secs) ==
    IF KeyCount(secs.Interface) = 0 THEN <<Err("Missing [Interface] section")>>
    ELSE CheckPrivateKey(secs.Interface) \o CheckAddress(secs.Interface)
         \o CheckDNS(secs.Interface) \o CheckMTU(secs.Interface)

----------------------------------------------------------------------------
(* validateWireguardConfig: the checks of the [Peer] section *)

CheckPublicKey(peer) ==
    LET v == GetProperty(peer, kPublicKey)
    IN  IF ~Truthy(v) THEN <<Err("PublicKey is required in [Peer]")>>
        ELSE IF ~isValidBase64Key(v)
             THEN <<Err("Invalid PublicKey format (must be 44-character base64 string)")>>
        ELSE <<>>

CheckEndpoint(peer) ==
    LET v == GetProperty(peer, kEndpoint)
    IN  IF ~Truthy(v) THEN <<Err("Endpoint is required in [Peer]")>>
        ELSE IF ~isValidEndpoint(v)
             THEN <<Err("Invalid Endpoint format (use hostname:port or ip:port, e.g., vpn.example.com:51820)")>>
        ELSE <<>>

CheckAllowedIPs(peer) ==
    LET v == GetProperty(peer, kAllowedIPs)
    IN  IF ~Truthy(v) THEN <<Err("AllowedIPs is required in [Peer]")>>
        ELSE LET allowedIPs == MapTrim(Split(v.s, ","))
                 invalidIPs == InvalidCIDRs(allowedIPs)
             IN  IF Len(invalidIPs) > 0
                 THEN <<ErrList("Invalid AllowedIPs format (use CIDR notation): ", invalidIPs)>>
                 ELSE <<>>

CheckPreSharedKey(peer) ==
    LET v == GetProperty(peer, kPreSharedKey)
    IN  IF Truthy(v) /\ ~isValidBase64Key(v)
        THEN <<Err("Invalid PreSharedKey format (must be 44-character base64 string)")>>
        ELSE <<>>

CheckPersistentKeepAlive(peer) ==
    LET v == GetProperty(peer, kPersistentKeepAlive)
    IN  IF Truthy(v) /\ OutOfRange(v, 0, 65535)
        THEN <<Err("Invalid PersistentKeepAlive value (must be between 0 and 65535)")>>
        ELSE <<>>

\* a variant that goes on to the field checks of a missing section
PeerErrorsCascade(secs) ==
    (IF KeyCount(secs.Peer) = 0 THEN <<Err("Missing [Peer] section")>> ELSE <<>>)
    \o CheckPublicKey(secs.Peer) \o CheckEndpoint(secs.Peer) \o CheckAllowedIPs(secs.Peer)
    \o CheckPreSharedKey(secs.Peer) \o CheckPersistentKeepAlive(secs.Peer)

PeerErrors(secs) ==
    IF KeyCount(secs.Peer) = 0 THEN <<Err("Missing [Peer] section")>>
    ELSE CheckPublicKey(secs.Peer) \o CheckEndpoint(secs.Peer) \o CheckAllowedIPs(secs.Peer)
         \o CheckPreSharedKey(secs.Peer) \o CheckPersistentKeepAlive(secs.Peer)

\* the sections local of a call: unset until parseConfigSections has run
SectionsOf(configString) ==
    IF ~Truthy(configString) \/ ~IsString(configString) THEN NotParsed
    ELSE LET secs == parseConfigSections(configString.s)
         IN  [parsed |-> TRUE, Interface |-> secs.Interface, Peer |-> secs.Peer]

\* a variant whose guard tests emptiness only, not the type
validateWireguardConfigUntyped(configString, secs) ==
    IF ~Truthy(configString)
    THEN [kind |-> "return", valid |-> FALSE, errors |-> <<Err("Config is empty or invalid")>>]
    ELSE Return(InterfaceErrors(secs) \o PeerErrors(secs))

validateWireguardConfig(configString, secs) ==
    IF ~Truthy(configString) \/ ~IsString(configString)
    THEN [kind |-> "return", valid |-> FALSE, errors |-> <<Err("Config is empty or invalid")>>]
    ELSE Return(InterfaceErrors(secs) \o PeerErrors(secs))

----------------------------------------------------------------------------
(* validateFormData *)

FormPrivateKey(fd) ==
    IF ~Truthy(fd.PrivateKey) THEN <<Err("PrivateKey is required")>>
    ELSE IF ~isValidBase64Key(fd.PrivateKey) THEN <<Err("Invalid PrivateKey format")>>
    ELSE <<>>

FormAddress(fd) ==
    IF ~Truthy(fd.Address) THEN <<Err("Address is required")>>
    ELSE IF ~isValidCIDR(fd.Address)
         THEN <<Err("Invalid Address format (use CIDR notation, e.g., 10.0.0.2/24)")>>
    ELSE <<>>

\* a variant that takes DNS for one address, not a list
FormDNSSingle(fd) ==
    IF Truthy(fd.DNS) /\ ~isValidIPv4(fd.DNS)
    THEN <<ErrList("Invalid DNS server format: ", <<fd.DNS.s>>)>>
    ELSE <<>>

\* formData.DNS.split(',') is called on any truthy value
FormDNS(fd) ==
    IF Truthy(fd.DNS)
    THEN LET invalidDNS == InvalidIPv4s(MapTrim(Split(fd.DNS.s, ",")))
         IN  IF Len(invalidDNS) > 0
             THEN <<ErrList("Invalid DNS server format: ", invalidDNS)>>
             ELSE <<>>
    ELSE <<>>

FormPublicKey(fd) ==
    IF ~Truthy(fd.PublicKey) THEN <<Err("PublicKey is required")>>
    ELSE IF ~isValidBase64Key(fd.PublicKey) THEN <<Err("Invalid PublicKey format")>>
    ELSE <<>>

FormEndpoint(fd) ==
    IF ~Truthy(fd.Endpoint) THEN <<Err("Endpoint is required")>>
    ELSE IF ~isValidEndpoint(fd.Endpoint)
         THEN <<Err("Invalid Endpoint format (use hostname:port or ip:port)")>>
    ELSE <<>>

FormAllowedIPs(fd) ==
    IF ~Truthy(fd.AllowedIPs) THEN <<Err("AllowedIPs is required")>>
    ELSE LET invalidIPs == InvalidCIDRs(MapTrim(Split(fd.AllowedIPs.s, ",")))
         IN  IF Len(invalidIPs) > 0
             THEN <<ErrList("Invalid AllowedIPs format: ", invalidIPs)>>
             ELSE <<>>

FormPreSharedKey(fd) ==
    IF Truthy(fd.PreSharedKey) /\ ~isValidBase64Key(fd.PreSharedKey)
    THEN <<Err("Invalid PreSharedKey format")>>
    ELSE <<>>

FormPersistentKeepAlive(fd) ==
    IF Truthy(fd.PersistentKeepAlive) /\ OutOfRange(fd.PersistentKeepAlive, 0, 65535)
    THEN <<Err("Invalid PersistentKeepAlive value (must be 0-65535)")>>
    ELSE <<>>

\* a TypeError leaves the function: a property read of a missing record, or
\* .split called on a truthy value that is not a string
FormThrows(fd) ==
    \/ fd.missing
    \/ Truthy(fd.DNS) /\ ~IsString(fd.DNS)
    \/ Truthy(fd.AllowedIPs) /\ ~IsString(fd.AllowedIPs)

validateFormData(fd) ==
    IF FormThrows(fd) THEN TypeError
    ELSE Return(FormPrivateKey(fd) \o FormAddress(fd) \o FormDNS(fd) \o FormPublicKey(fd)
                \o FormEndpoint(fd) \o FormAllowedIPs(fd) \o FormPreSharedKey(fd)
                \o FormPersistentKeepAlive(fd))

----------------------------------------------------------------------------
(* Inputs of the two validation functions *)

\* the number of fields of a section (or of a form record) that may differ
\* from a valid baseline at once
MaxDeviations == 2

\* a 44-character key of the accepted shape, and one a character short
ValidKey == [i \in 1..44 |-> IF i = 44 THEN "=" ELSE "A"]
ShortKey == Tail(ValidKey)

\* a field of the text is absent (<<>>) or present with a value (<<value>>)
Absent == <<>>
Present(value) == <<value>>

TextPrivateKeys == <<Absent, Present(<<>>), Present(ValidKey), Present(ShortKey)>>
TextAddresses ==
    <<Absent, Present(<<>>), Present(<<"1", "0", ".", "0", ".", "0", ".", "2", "/", "2", "4">>), Present(<<"1", "0", ".", "0", ".", "0", ".", "2", "/", "2", "4", ",", " ", "f", "d", "0", "0", ":", "0", ":", "1", "/", "6", "4">>),
     Present(<<"1", "0", ".", "0", ".", "0", ".", "0", "/", "2", "4", ",", "1", "0", ".", "0", ".", "1", ".", "0", "/", "2", "4">>), Present(<<"1", "0", ".", "0", ".", "0", ".", "2", "/", "3", "3">>),
     Present(<<"1", "0", ".", "0", ".", "0", ".", "2", "/", "2", "4", ",", "x", ",", " ", "1", "0", ".", "0", ".", "0", ".", "2", "/", "3", "3">>)>>
TextDNSs ==
    <<Absent, Present(<<>>), Present(<<"1", ".", "1", ".", "1", ".", "1">>), Present(<<"1", ".", "1", ".", "1", ".", "1", ",", " ", "8", ".", "8", ".", "8", ".", "8">>),
     Present(<<"1", ".", "1", ".", "1", ".", "2", "5", "6", ",", "8", ".", "8", ".", "8", ".", "8", ",", " ", "x">>)>>
TextMTUs ==
    <<Absent, Present(<<>>), Present(<<"1", "4", "2", "0">>), Present(<<"5", "7", "5">>), Present(<<"a", "b", "c">>),
     Present(<<"1", "5", "0", "0", "a", "b", "c">>), Present(<<"6", "5", "5", "3", "6">>), Present(<<"5", "7", "6">>)>>
TextEndpoints ==
    <<Absent, Present(<<>>), Present(<<"v", "p", "n", ".", "e", "x", "a", "m", "p", "l", "e", ".", "c", "o", "m", ":", "5", "1", "8", "2", "0">>), Present(<<"v", "p", "n", ".", "e", "x", "a", "m", "p", "l", "e", ".", "c", "o", "m", ":", "0">>),
     Present(<<"1", "0", ".", "0", ".", "0", ".", "1", ":", "6", "5", "5", "3", "5">>)>>
TextAllowedIPs ==
    <<Absent, Present(<<>>), Present(<<"0", ".", "0", ".", "0", ".", "0", "/", "0">>), Present(<<"0", ".", "0", ".", "0", ".", "0", "/", "0", ",", " ", ":", ":", "/", "0">>),
     Present(<<"0", ".", "0", ".", "0", ".", "0", "/", "3", "3", ",", " ", ":", ":", "/", "1", "2", "9">>)>>
TextKeepAlives ==
    <<Absent, Present(<<>>), Present(<<"2", "5">>), Present(<<"7", "0", "0", "0", "0">>), Present(<<"a", "b", "c">>),
     Present(<<"2", "5", "a", "b", "c">>), Present(<<"0">>), Present(<<"-", "1">>)>>

ValidInterface ==
    [PrivateKey |-> Present(ValidKey), Address |-> Present(<<"1", "0", ".", "0", ".", "0", ".", "2", "/", "2", "4">>),
     DNS |-> Present(<<"1", ".", "1", ".", "1", ".", "1">>), MTU |-> Present(<<"1", "4", "2", "0">>)]
BadInterface ==
    [PrivateKey |-> Present(ShortKey), Address |-> Present(<<"1", "0", ".", "0", ".", "0", ".", "2", "/", "3", "3">>),
     DNS |-> Present(<<"1", ".", "1", ".", "1", ".", "2", "5", "6", ",", "8", ".", "8", ".", "8", ".", "8", ",", " ", "x">>), MTU |-> Present(<<"a", "b", "c">>)]
NoInterfaceFields == [PrivateKey |-> Absent, Address |-> Absent, DNS |-> Absent, MTU |-> Absent]

ValidPeer ==
    [PublicKey |-> Present(ValidKey), Endpoint |-> Present(<<"v", "p", "n", ".", "e", "x", "a", "m", "p", "l", "e", ".", "c", "o", "m", ":", "5", "1", "8", "2", "0">>),
     AllowedIPs |-> Present(<<"0", ".", "0", ".", "0", ".", "0", "/", "0">>), PreSharedKey |-> Present(ValidKey),
     PersistentKeepAlive |-> Present(<<"2", "5">>)]
BadPeer ==
    [PublicKey |-> Present(ShortKey), Endpoint |-> Present(<<"v", "p", "n", ".", "e", "x", "a", "m", "p", "l", "e", ".", "c", "o", "m", ":", "0">>),
     AllowedIPs |-> Present(<<"0", ".", "0", ".", "0", ".", "0", "/", "3", "3", ",", " ", ":", ":", "/", "1", "2", "9">>), PreSharedKey |-> Present(ShortKey),
     PersistentKeepAlive |-> Present(<<"7", "0", "0", "0", "0">>)]
NoPeerFields ==
    [PublicKey |-> Absent, Endpoint |-> Absent, AllowedIPs |-> Absent,
     PreSharedKey |-> Absent, PersistentKeepAlive |-> Absent]

InterfacePool ==
    [PrivateKey |-> TextPrivateKeys, Address |-> TextAddresses, DNS |-> TextDNSs,
     MTU |-> TextMTUs]
InterfaceKeys == <<"PrivateKey", "Address", "DNS", "MTU">>

PeerPool ==
    [PublicKey |-> TextPrivateKeys, Endpoint |-> TextEndpoints, AllowedIPs |-> TextAllowedIPs,
     PreSharedKey |-> TextPrivateKeys, PersistentKeepAlive |-> TextKeepAlives]
PeerKeys == <<"PublicKey", "Endpoint", "AllowedIPs", "PreSharedKey", "PersistentKeepAlive">>

\* a choice of values: for each of the first k fields 0 (the baseline value)
\* or the index of a value of the field's pool, at most n of them not 0
RECURSIVE Choices(_, _, _, _)
Choices(pool, keys, k, n) ==
    IF k = 0 THEN {<<>>}
    ELSE {Append(c, 0) : c \in Choices(pool, keys, k - 1, n)}
         \cup (IF n = 0 THEN {}
               ELSE {Append(c, i) : c \in Choices(pool, keys, k - 1, n - 1),
                                    i \in 1..Len(pool[keys[k]])})

\* the record a choice stands for
Chosen(base, pool, keys, c) ==
    [f \in DOMAIN base |->
        IF \E j \in 1..Len(keys) : keys[j] = f /\ c[j] # 0
        THEN LET j == CHOOSE j \in 1..Len(keys) : keys[j] = f IN pool[f][c[j]]
        ELSE base[f]]

InterfaceChoices == Choices(InterfacePool, InterfaceKeys, Len(InterfaceKeys), MaxDeviations)
PeerChoices == Choices(PeerPool, PeerKeys, Len(PeerKeys), MaxDeviations)

\* "Key = value"
FieldLine(key, field) ==
    IF field = Absent THEN <<>> ELSE <<key \o <<" ", "=", " ">> \o field[1]>>

Reverse(list) == [i \in 1..Len(list) |-> list[Len(list) + 1 - i]]

InterfaceLines(f) ==
    FieldLine(kPrivateKey, f.PrivateKey) \o FieldLine(kAddress, f.Address)
    \o FieldLine(kDNS, f.DNS) \o FieldLine(kMTU, f.MTU)

PeerLines(f) ==
    FieldLine(kPublicKey, f.PublicKey) \o FieldLine(kEndpoint, f.Endpoint)
    \o FieldLine(kAllowedIPs, f.AllowedIPs) \o FieldLine(kPreSharedKey, f.PreSharedKey)
    \o FieldLine(kPersistentKeepAlive, f.PersistentKeepAlive)

\* lines that store nothing: a comment, a line without "=", an unknown
\* header, an assignment to __proto__
JunkLines ==
    <<<<"#", " ", "c", "o", "m", "m", "e", "n", "t">>, <<"n", "o", " ", "a", "s", "s", "i", "g", "n", "m", "e", "n", "t">>, <<"[", "p", "e", "e", "r", "]">>,
      <<"_", "_", "p", "r", "o", "t", "o", "_", "_", " ", "=", " ", "x">>>>

\* the layouts of a text: which section comes first, whether the keys are
\* listed in reverse, a section's header left out ("none") or followed by
\* junk lines, lines ahead of the first header
Layouts ==
    [first : {"Interface", "Peer"}, reversed : BOOLEAN,
     interface : {"section", "junk", "none"}, peer : {"section", "junk", "none"},
     preamble : BOOLEAN]

Block(header, mode, lines, reversed) ==
    IF mode = "none" THEN <<>>
    ELSE <<header>> \o (IF mode = "junk" THEN JunkLines ELSE <<>>)
         \o (IF reversed THEN Reverse(lines) ELSE lines) \o <<<<>>>>

ConfigText(layout, iface, peer) ==
    LET ib == Block(InterfaceHeader, layout.interface, InterfaceLines(iface), layout.reversed)
        pb == Block(PeerHeader, layout.peer, PeerLines(peer), layout.reversed)
        pre == IF layout.preamble THEN InterfaceLines(BadInterface) ELSE <<>>
    IN  Join(pre \o (IF layout.first = "Interface" THEN ib \o pb ELSE pb \o ib), <<"\n">>)

StandardLayout ==
    [first |-> "Interface", reversed |-> FALSE, interface |-> "section", peer |-> "section",
     preamble |-> FALSE]

\* an argument that is no text
OtherArgs == {Undefined, Null, Str(<<>>), Num(0), Num(5), Arr(<<InterfaceHeader>>), Obj}

\* the values a field of the request body can hold: absent, a string, or
\* (from a JSON or an extended url-encoded body) a number, an array, an object
BodyKeys ==
    <<Undefined, Str(<<>>), Str(ValidKey), Str(ShortKey), Str(<<" ">> \o ValidKey), Num(5),
     Arr(<<ValidKey>>)>>
BodyAddresses ==
    <<Undefined, Str(<<"1", "0", ".", "0", ".", "0", ".", "2", "/", "2", "4">>), Str(<<"1", "0", ".", "0", ".", "0", ".", "0", "/", "2", "4", ",", "1", "0", ".", "0", ".", "1", ".", "0", "/", "2", "4">>), Str(<<"1", "0", ".", "0", ".", "0", ".", "2", "/", "3", "3">>),
     Str(<<"f", "d", "0", "0", ":", "0", ":", "1", "/", "6", "4">>), Arr(<<<<"1", "0", ".", "0", ".", "0", ".", "2", "/", "2", "4">>>>), Num(10)>>
BodyDNSs ==
    <<Undefined, Str(<<>>), Str(<<"1", ".", "1", ".", "1", ".", "1">>), Str(<<"1", ".", "1", ".", "1", ".", "1", ",", " ", "8", ".", "8", ".", "8", ".", "8">>),
     Str(<<"1", ".", "1", ".", "1", ".", "2", "5", "6", ",", "8", ".", "8", ".", "8", ".", "8", ",", " ", "x">>), Arr(<<<<"1", ".", "1", ".", "1", ".", "1">>>>), Num(0), Num(5), Obj>>
BodyEndpoints ==
    <<Undefined, Str(<<"v", "p", "n", ".", "e", "x", "a", "m", "p", "l", "e", ".", "c", "o", "m", ":", "5", "1", "8", "2", "0">>), Str(<<"v", "p", "n", ".", "e", "x", "a", "m", "p", "l", "e", ".", "c", "o", "m", ":", "0">>), Num(51820), Obj>>
BodyAllowedIPs ==
    <<Undefined, Str(<<"0", ".", "0", ".", "0", ".", "0", "/", "0">>), Str(<<"0", ".", "0", ".", "0", ".", "0", "/", "0", ",", " ", ":", ":", "/", "0">>), Str(<<"0", ".", "0", ".", "0", ".", "0", "/", "3", "3", ",", " ", ":", ":", "/", "1", "2", "9">>),
     Arr(<<<<"0", ".", "0", ".", "0", ".", "0", "/", "0">>>>), Num(0), Obj>>
BodyKeepAlives ==
    <<Undefined, Str(<<>>), Str(<<"2", "5">>), Str(<<"7", "0", "0", "0", "0">>), Str(<<"a", "b", "c">>), Str(<<"2", "5", "a", "b", "c">>),
     Str(<<"-", "1">>), Num(0), Num(25), Num(70000), Arr(<<<<"2", "5">>>>), Arr(<<<<"7", "0", "0", "0", "0">>>>), Obj>>

ValidForm ==
    [missing |-> FALSE, PrivateKey |-> Str(ValidKey), Address |-> Str(<<"1", "0", ".", "0", ".", "0", ".", "2", "/", "2", "4">>),
     DNS |-> Str(<<"1", ".", "1", ".", "1", ".", "1">>), PublicKey |-> Str(ValidKey),
     Endpoint |-> Str(<<"v", "p", "n", ".", "e", "x", "a", "m", "p", "l", "e", ".", "c", "o", "m", ":", "5", "1", "8", "2", "0">>), AllowedIPs |-> Str(<<"0", ".", "0", ".", "0", ".", "0", "/", "0">>),
     PreSharedKey |-> Str(ValidKey), PersistentKeepAlive |-> Str(<<"2", "5">>)]

BadForm ==
    [missing |-> FALSE, PrivateKey |-> Str(ShortKey), Address |-> Str(<<"1", "0", ".", "0", ".", "0", ".", "2", "/", "3", "3">>),
     DNS |-> Str(<<"1", ".", "1", ".", "1", ".", "2", "5", "6", ",", "8", ".", "8", ".", "8", ".", "8", ",", " ", "x">>), PublicKey |-> Num(5),
     Endpoint |-> Str(<<"v", "p", "n", ".", "e", "x", "a", "m", "p", "l", "e", ".", "c", "o", "m", ":", "0">>), AllowedIPs |-> Str(<<"0", ".", "0", ".", "0", ".", "0", "/", "3", "3", ",", " ", ":", ":", "/", "1", "2", "9">>),
     PreSharedKey |-> Str(ShortKey), PersistentKeepAlive |-> Str(<<"7", "0", "0", "0", "0">>)]

EmptyForm ==
    [missing |-> FALSE, PrivateKey |-> Undefined, Address |-> Undefined, DNS |-> Undefined,
     PublicKey |-> Undefined, Endpoint |-> Undefined, AllowedIPs |-> Undefined,
     PreSharedKey |-> Undefined, PersistentKeepAlive |-> Undefined]

\* no record at all: validateFormData(undefined)
MissingForm == [EmptyForm EXCEPT !.missing = TRUE]

FormPool ==
    [PrivateKey |-> BodyKeys, Address |-> BodyAddresses, DNS |-> BodyDNSs,
     PublicKey |-> BodyKeys, Endpoint |-> BodyEndpoints, AllowedIPs |-> BodyAllowedIPs,
     PreSharedKey |-> BodyKeys, PersistentKeepAlive |-> BodyKeepAlives]
FormKeys ==
    <<"PrivateKey", "Address", "DNS", "PublicKey", "Endpoint", "AllowedIPs", "PreSharedKey",
      "PersistentKeepAlive">>

FormChoices == Choices(FormPool, FormKeys, Len(FormKeys), MaxDeviations)

----------------------------------------------------------------------------
(* The calls.  A behaviour is one call: Init holds the function called and  *)
(* its argument, the action runs the function to its return or its throw.   *)

\* the pattern table as the module builds it: every lastIndex is 0
PatternNames == {"base64Key", "ipv4", "ipv6", "cidrV4", "cidrV6", "endpoint", "domain"}
NewTable == [p \in PatternNames |-> 0]

NoRequest == [route |-> "", hasBody |-> FALSE]

InitCallVars == lastIndex = NewTable /\ heap = <<>> /\ log = <<>>
InitParserVars == currentSection = "null" /\ lineNo = 0
InitServerVars == request = NoRequest /\ responses = <<>> /\ qrCodes = <<>>

TypeOK ==
    /\ pc \in {"call", "done"}
    /\ result.kind \in {"none", "return", "throw"}
    /\ answer \in BOOLEAN

\* the texts: every choice of fields of one section in the standard layout,
\* and the valid, the all-invalid and the empty field sets in every layout
InitConfig ==
    /\ fn = "validateWireguardConfig" /\ formData = MissingForm
    /\ \/ \E c \in InterfaceChoices, p \in {ValidPeer, BadPeer} :
             arg = Str(ConfigText(StandardLayout,
                                  Chosen(ValidInterface, InterfacePool, InterfaceKeys, c), p))
       \/ \E c \in PeerChoices, i \in {ValidInterface, BadInterface} :
             arg = Str(ConfigText(StandardLayout, i, Chosen(ValidPeer, PeerPool, PeerKeys, c)))
       \/ \E l \in Layouts, i \in {ValidInterface, BadInterface, NoInterfaceFields},
             p \in {ValidPeer, BadPeer, NoPeerFields} :
             arg = Str(ConfigText(l, i, p))
       \/ arg \in OtherArgs

InitForm ==
    /\ fn = "validateFormData" /\ arg = Undefined
    /\ \/ \E c \in FormChoices : formData = Chosen(ValidForm, FormPool, FormKeys, c)
       \/ formData \in {BadForm, EmptyForm, MissingForm}

Init ==
    /\ pc = "call"
    /\ InitConfig \/ InitForm
    /\ sections = NotParsed
    /\ result = NoResult
    /\ answer = FALSE
    /\ InitCallVars /\ InitParserVars /\ InitServerVars

ValidateWireguardConfig ==
    /\ pc = "call" /\ fn = "validateWireguardConfig"
    /\ sections' = SectionsOf(arg)
    /\ result' = validateWireguardConfig(arg, sections')
    /\ pc' = "done"
    /\ UNCHANGED <<fn, arg, formData, answer>>
    /\ UNCHANGED <<callVars, parserVars, serverVars>>

ValidateFormData ==
    /\ pc = "call" /\ fn = "validateFormData"
    /\ result' = validateFormData(formData)
    /\ pc' = "done"
    /\ UNCHANGED <<fn, arg, formData, sections, answer>>
    /\ UNCHANGED <<callVars, parserVars, serverVars>>

Next == ValidateWireguardConfig \/ ValidateFormData

Spec == Init /\ [][Next]_vars

----------------------------------------------------------------------------
(* Reading a result *)

Returned(f) == pc = "done" /\ fn = f /\ result.kind = "return"

\* the field (or section) an error message is about, in the order of the
\* checks: 1-5 the [Interface] section, 6-11 the [Peer] section
RankOf(msg) ==
    CASE msg = "Missing [Interface] section" -> 1
      [] msg \in {"PrivateKey is required in [Interface]",
                  "Invalid PrivateKey format (must be 44-character base64 string)"} -> 2
      [] msg \in {"Address is required in [Interface]",
                  "Invalid Address format (use CIDR notation, e.g., 10.0.0.2/24): "} -> 3
      [] msg = "Invalid DNS server format: " -> 4
      [] msg = "Invalid MTU value (must be between 576 and 65535)" -> 5
      [] msg = "Missing [Peer] section" -> 6
      [] msg \in {"PublicKey is required in [Peer]",
                  "Invalid PublicKey format (must be 44-character base64 string)"} -> 7
      [] msg \in {"Endpoint is required in [Peer]",
                  "Invalid Endpoint format (use hostname:port or ip:port, e.g., vpn.example.com:51820)"} -> 8
      [] msg \in {"AllowedIPs is required in [Peer]",
                  "Invalid AllowedIPs format (use CIDR notation): "} -> 9
      [] msg = "Invalid PreSharedKey format (must be 44-character base64 string)" -> 10
      [] msg = "Invalid PersistentKeepAlive value (must be between 0 and 65535)" -> 11
      [] OTHER -> 0

InterfaceRanks == 1..5
PeerRanks == 6..11

\* the errors of the result whose rank lies in ranks, in the result's order
ErrorsAbout(ranks) == SelectSeq(result.errors, LAMBDA e : RankOf(e.msg) \in ranks)

HasError(rank) == \E i \in 1..Len(result.errors) : RankOf(result.errors[i].msg) = rank

\* the position of the first line of the text that equals line; 0 if none
RECURSIVE LineIndex(_, _, _)
LineIndex(lines, line, i) ==
    IF i > Len(lines) THEN 0
    ELSE IF lines[i] = line THEN i
    ELSE LineIndex(lines, line, i + 1)

----------------------------------------------------------------------------
(* C1 - C5: the result of a validation call *)

\* C1: whenever validate_config or validate_form returns a result, its valid
\* flag is true if and only if its errors list is empty.
C1_ValidIffNoErrors ==
    (pc = "done" /\ result.kind = "return") => (result.valid <=> Len(result.errors) = 0)

C1_Witness ==
    /\ Returned("validateFormData")
    /\ ~result.valid
    /\ Len(result.errors) >= 2

\* C2: neither validate_config nor validate_form ever throws: every call
\* returns a result (a missing form record and non-string field values included).
C2_NeverThrows == pc = "done" => result.kind = "return"

\* C3: for a missing, empty or non-string argument validate_config returns
\* exactly {valid: false, errors: ['Config is empty or invalid']} and the
\* section parser is never run.
C3_EmptyOrInvalid ==
    (pc = "done" /\ fn = "validateWireguardConfig" /\ (arg.t # "string" \/ Len(arg.s) = 0))
    => /\ result = [kind |-> "return", valid |-> FALSE,
                    errors |-> <<[msg |-> "Config is empty or invalid", detail |-> <<>>]>>]
       /\ ~sections.parsed

C3_Witness ==
    /\ Returned("validateWireguardConfig")
    /\ arg.t = "array"
    /\ Len(result.errors) = 1

\* C4: a section that is absent or has no stored key yields exactly one error
\* about that section, the missing-section error, and no per-field error of
\* that section; the other section's checks are all still made.
C4_MissingSection ==
    (Returned("validateWireguardConfig") /\ sections.parsed)
    => /\ KeyCount(sections.Interface) = 0
          => /\ ErrorsAbout(InterfaceRanks)
                  = <<[msg |-> "Missing [Interface] section", detail |-> <<>>]>>
             /\ ErrorsAbout(PeerRanks) = PeerErrors(sections)
       /\ KeyCount(sections.Peer) = 0
          => /\ ErrorsAbout(PeerRanks) = <<[msg |-> "Missing [Peer] section", detail |-> <<>>]>>
             /\ ErrorsAbout(InterfaceRanks) = InterfaceErrors(sections)
       /\ Len(ErrorsAbout(InterfaceRanks)) + Len(ErrorsAbout(PeerRanks)) = Len(result.errors)

\* a text whose [Peer] header is followed by no stored key while its
\* [Interface] section holds several invalid fields
C4_Witness ==
    /\ Returned("validateWireguardConfig") /\ sections.parsed
    /\ KeyCount(sections.Peer) = 0
    /\ LineIndex(Split(arg.s, "\n"), PeerHeader, 1) > 0
    /\ Len(ErrorsAbout(InterfaceRanks)) >= 3

\* the stored value of a field fails the field's rule
BadKeyField(v) == ~isValidBase64Key(v)
BadCIDRList(v) ==
    ~Truthy(v) \/ \E x \in {Trim(y) : y \in {Split(v.s, ",")[i] : i \in 1..Len(Split(v.s, ","))}} :
                      ~isValidCIDR(Str(x))
BadDNSList(v) ==
    Truthy(v) /\ \E i \in 1..Len(Split(v.s, ",")) : ~isValidIPv4(Str(Trim(Split(v.s, ",")[i])))

\* C5: the errors of validate_config come in the fixed order of the checks
\* (Interface before Peer; PrivateKey, Address, DNS, MTU; PublicKey, Endpoint,
\* AllowedIPs, PreSharedKey, PersistentKeepAlive), at most one per field,
\* wherever the sections and keys stand in the text; and each field of a
\* section that has keys gets its error exactly when its own value is bad,
\* whatever the other fields hold.
C5_FixedOrder ==
    (Returned("validateWireguardConfig") /\ sections.parsed)
    => /\ \A i \in 1..Len(result.errors) : RankOf(result.errors[i].msg) # 0
       /\ \A i, j \in 1..Len(result.errors) :
             i < j => RankOf(result.errors[i].msg) < RankOf(result.errors[j].msg)
       /\ KeyCount(sections.Interface) > 0
          => /\ HasError(2) <=> BadKeyField(GetProperty(sections.Interface, kPrivateKey))
             /\ HasError(3) <=> BadCIDRList(GetProperty(sections.Interface, kAddress))
             /\ HasError(4) <=> BadDNSList(GetProperty(sections.Interface, kDNS))
             /\ HasError(5) <=> (Truthy(GetProperty(sections.Interface, kMTU))
                                 /\ OutOfRange(GetProperty(sections.Interface, kMTU), 576, 65535))
       /\ KeyCount(sections.Peer) > 0
          => /\ HasError(7) <=> BadKeyField(GetProperty(sections.Peer, kPublicKey))
             /\ HasError(8) <=> ~isValidEndpoint(GetProperty(sections.Peer, kEndpoint))
             /\ HasError(9) <=> BadCIDRList(GetProperty(sections.Peer, kAllowedIPs))
             /\ HasError(10) <=> (Truthy(GetProperty(sections.Peer, kPreSharedKey))
                                  /\ BadKeyField(GetProperty(sections.Peer, kPreSharedKey)))
             /\ HasError(11)
                <=> (Truthy(GetProperty(sections.Peer, kPersistentKeepAlive))
                     /\ OutOfRange(GetProperty(sections.Peer, kPersistentKeepAlive), 0, 65535))

\* a text that lists [Peer] before [Interface] and whose every field is bad
C5_Witness ==
    /\ Returned("validateWireguardConfig") /\ sections.parsed
    /\ LET lines == Split(arg.s, "\n")
       IN  /\ LineIndex(lines, PeerHeader, 1) > 0
           /\ LineIndex(lines, PeerHeader, 1) < LineIndex(lines, InterfaceHeader, 1)
    /\ Len(ErrorsAbout(InterfaceRanks)) = 4
    /\ Len(ErrorsAbout(PeerRanks)) = 5

----------------------------------------------------------------------------
(* The field validators called on their own *)

\* white space of up to MaxPad characters on each side of a key
MaxPad == 1
\* key bodies of 44 - KeySlack to 44 + KeySlack characters (and of 0 to KeySlack)
KeySlack == 2

Repeat(c, n) == [i \in 1..n |-> c]

\* n characters, all fill except character p (if any), which is x
KeyBody(n, fill, p, x) == [i \in 1..n |-> IF i = p THEN x ELSE fill]

KeyStrings ==
    {Repeat(w, k) \o KeyBody(n, fill, p, x) \o Repeat(w, k) :
        k \in 0..MaxPad, w \in {" ", "\n"}, fill \in {"A", "/"},
        n \in (0..KeySlack) \cup ((44 - KeySlack)..(44 + KeySlack)),
        p \in (0..KeySlack) \cup ((44 - KeySlack - 1)..(44 + KeySlack)),
        x \in {"=", "-", "z", " "}}

KeyArgs == {Str(s) : s \in KeyStrings} \cup {Undefined, Null, Num(0), Num(5), Arr(<<ValidKey>>), Obj}

InitKey ==
    /\ pc = "call" /\ fn = "isValidBase64Key" /\ arg \in KeyArgs
    /\ formData = MissingForm /\ sections = NotParsed /\ result = NoResult /\ answer = FALSE
    /\ InitCallVars /\ InitParserVars /\ InitServerVars

IsValidBase64Key ==
    /\ pc = "call" /\ fn = "isValidBase64Key"
    /\ answer' = isValidBase64Key(arg)
    /\ pc' = "done"
    /\ UNCHANGED <<fn, arg, formData, sections, result>>
    /\ UNCHANGED <<callVars, parserVars, serverVars>>

SpecKey == InitKey /\ [][IsValidBase64Key]_vars

\* the most dot-separated octets and colon-separated groups of an address
MaxOctets == 5
MaxGroups == 9

\* n parts, all fill except part p, which is x, joined with sep
Parts(n, fill, p, x, sep) == Join([i \in 1..n |-> IF i = p THEN x ELSE fill], sep)

PrefixTexts ==
    {<<>>, <<"0">>, <<"2", "4">>, <<"3", "2">>, <<"3", "3">>, <<"6", "4">>, <<"9", "9">>, <<"1", "2", "8">>, <<"1", "2", "9">>,
     <<"0", "3", "2">>, <<"9", "9", "9">>, <<"1", "0", "0", "0">>, <<"x">>}

CidrStrings ==
    {Parts(n, <<"1", "0">>, p, x, <<".">>) \o slash \o prefix :
        n \in 3..MaxOctets, p \in 1..MaxOctets,
        x \in {<<>>, <<"0">>, <<"2", "5", "5">>, <<"2", "5", "6">>, <<"9", "9", "9">>, <<"0", "0", "1", "0">>, <<"a">>},
        slash \in {<<>>, <<"/">>}, prefix \in PrefixTexts}
    \cup
    {Parts(n, fill, p, x, <<":">>) \o slash \o prefix :
        n \in 1..MaxGroups, p \in {1, 2, MaxGroups}, fill \in {<<>>, <<"a">>, <<"f", "f", "f", "f">>},
        x \in {<<>>, <<"1">>, <<"f", "f", "f", "f", "f">>, <<"g">>}, slash \in {<<>>, <<"/">>},
        prefix \in PrefixTexts}

CidrArgs == {Str(s) : s \in CidrStrings} \cup {Undefined, Null, Num(10), Arr(<<<<"1", "0", ".", "0", ".", "0", ".", "2", "/", "2", "4">>>>), Obj}

InitCIDR ==
    /\ pc = "call" /\ fn = "isValidCIDR" /\ arg \in CidrArgs
    /\ formData = MissingForm /\ sections = NotParsed /\ result = NoResult /\ answer = FALSE
    /\ InitCallVars /\ InitParserVars /\ InitServerVars

IsValidCIDR ==
    /\ pc = "call" /\ fn = "isValidCIDR"
    /\ answer' = isValidCIDR(arg)
    /\ pc' = "done"
    /\ UNCHANGED <<fn, arg, formData, sections, result>>
    /\ UNCHANGED <<callVars, parserVars, serverVars>>

SpecCIDR == InitCIDR /\ [][IsValidCIDR]_vars

\* the most dot-separated labels of a host
MaxLabels == 4

LabelTexts ==
    {<<>>, <<"a">>, <<"A", "1">>, <<"-", "a">>, <<"a", "-">>, <<"a", "-", "b">>, <<"a", "-", "-", "b">>, <<"a", "_", "b">>, <<"1", "0">>,
     <<"2", "5", "5">>, <<"2", "5", "6">>, Repeat("a", 63), Repeat("a", 64),
     <<"a">> \o Repeat("-", 61) \o <<"a">>}

PortTexts ==
    {<<>>, <<"0">>, <<"1">>, <<"5", "1", "8", "2", "0">>, <<"6", "5", "5", "3", "5">>, <<"6", "5", "5", "3", "6">>, <<"9", "9", "9", "9", "9">>,
     <<"1", "0", "0", "0", "0", "0">>, <<"0", "0", "0", "8", "0">>, <<"8", "x">>}

EndpointStrings ==
    {Parts(n, fill, p, x, <<".">>) \o tail :
        n \in 1..MaxLabels, p \in {1, 2, MaxLabels}, fill \in {<<"a">>, <<"1", "0">>}, x \in LabelTexts,
        tail \in {<<>>} \cup {<<":">> \o q : q \in PortTexts}
                 \cup {<<":">> \o q \o <<":">> \o q : q \in {<<"1">>, <<"5", "1", "8", "2", "0">>}}}

EndpointArgs == {Str(s) : s \in EndpointStrings} \cup {Undefined, Null, Num(51820), Arr(<<<<"v", "p", "n", ".", "e", "x", "a", "m", "p", "l", "e", ".", "c", "o", "m", ":", "5", "1", "8", "2", "0">>>>), Obj}

InitEndpoint ==
    /\ pc = "call" /\ fn = "isValidEndpoint" /\ arg \in EndpointArgs
    /\ formData = MissingForm /\ sections = NotParsed /\ result = NoResult /\ answer = FALSE
    /\ InitCallVars /\ InitParserVars /\ InitServerVars

IsValidEndpoint ==
    /\ pc = "call" /\ fn = "isValidEndpoint"
    /\ answer' = isValidEndpoint(arg)
    /\ pc' = "done"
    /\ UNCHANGED <<fn, arg, formData, sections, result>>
    /\ UNCHANGED <<callVars, parserVars, serverVars>>

SpecEndpoint == InitEndpoint /\ [][IsValidEndpoint]_vars

----------------------------------------------------------------------------
(* C6 - C8: the field validators *)

Answered(f) == pc = "done" /\ fn = f

\* C6: the key-format validator returns false for every string whose length
\* after trimming is not 44 and for every non-string or empty input, and true
\* for every 44-character string of 42 characters of A-Z a-z 0-9 + / followed
\* by 2 characters of that set or '='.
C6_KeyFormat ==
    Answered("isValidBase64Key")
    => /\ (arg.t # "string" \/ Len(arg.s) = 0) => ~answer
       /\ (arg.t = "string" /\ Len(Trim(arg.s)) # 44) => ~answer
       /\ (/\ arg.t = "string" /\ Len(arg.s) = 44
           /\ \A i \in 1..42 : arg.s[i] \in AlNum \cup {"+", "/"}
           /\ \A i \in 43..44 : arg.s[i] \in AlNum \cup {"+", "/", "="}) => answer

C6_Witness ==
    /\ Answered("isValidBase64Key") /\ answer
    /\ arg.s[43] = "=" /\ arg.s[44] = "/"

\* s is a run of lo to hi decimal digits
IsDecimal(s, lo, hi) == Len(s) \in lo..hi /\ \A i \in 1..Len(s) : s[i] \in Digit

\* a.b.c.d, each octet 1 to 3 digits with a value in [0, 255]
DottedQuad(s) ==
    LET octets == Split(s, ".")
    IN  /\ Len(octets) = 4
        /\ \A i \in 1..4 : IsDecimal(octets[i], 1, 3) /\ DigitsValue(octets[i]) <= 255

\* a.b.c.d/prefix, the prefix 1 or 2 digits with a value in [0, 32]
V4Block(s) ==
    LET parts == Split(s, "/")
    IN  /\ Len(parts) = 2
        /\ DottedQuad(parts[1])
        /\ IsDecimal(parts[2], 1, 2) /\ DigitsValue(parts[2]) <= 32

\* lo to hi colon-separated groups of 0-4 hex digits, then /prefix, the
\* prefix 1 to 3 digits with a value in [0, 128]
V6Block(s, lo, hi) ==
    LET parts == Split(s, "/")
    IN  /\ Len(parts) = 2
        /\ LET groups == Split(parts[1], ":")
           IN  /\ Len(groups) \in lo..hi
               /\ \A i \in 1..Len(groups) :
                     Len(groups[i]) <= 4 /\ \A j \in 1..Len(groups[i]) : groups[i][j] \in HexDigit
        /\ IsDecimal(parts[2], 1, 3) /\ DigitsValue(parts[2]) <= 128

\* C7 as stated: a string is accepted iff it is an IPv4 block or has 2 to 7
\* colon-separated groups of 0-4 hex digits followed by /prefix in [0, 128].
C7_AsStated ==
    (Answered("isValidCIDR") /\ arg.t = "string")
    => (answer <=> (V4Block(arg.s) \/ V6Block(arg.s, 2, 7)))

\* C7 amended: a string is accepted iff it is an IPv4 block a.b.c.d/prefix
\* (octets in [0, 255], prefix in [0, 32]) or has 3 to 8 colon-separated groups
\* of 0-4 hex digits (2 to 7 groups each closed by ':', then a last group)
\* followed by /prefix in [0, 128]; a non-string is rejected.
C7_CIDR ==
    Answered("isValidCIDR")
    => /\ arg.t = "string" => (answer <=> (V4Block(arg.s) \/ V6Block(arg.s, 3, 8)))
       /\ arg.t # "string" => ~answer

\* an accepted block of eight groups
C7_Witness ==
    /\ Answered("isValidCIDR") /\ answer /\ arg.t = "string"
    /\ Len(Split(arg.s, ":")) = 8

\* dot-separated labels of 1-63 characters, alphanumeric or '-', the first
\* and the last character alphanumeric
DomainName(s) ==
    LET labels == Split(s, ".")
    IN  \A i \in 1..Len(labels) :
           LET l == labels[i]
           IN  /\ Len(l) \in 1..63
               /\ \A j \in 1..Len(l) : l[j] \in AlNum \cup {"-"}
               /\ l[1] \in AlNum /\ l[Len(l)] \in AlNum

\* C8: an accepted endpoint has the shape host:port with exactly one ':', a
\* port that parses to an integer in [1, 65535], and a host that is a valid
\* IPv4 address or a domain name.
C8_Endpoint ==
    (Answered("isValidEndpoint") /\ answer)
    => /\ arg.t = "string"
       /\ LET parts == Split(arg.s, ":")
          IN  /\ Len(parts) = 2
              /\ ~ParseInt(Str(parts[2])).nan
              /\ ParseInt(Str(parts[2])).n \in 1..65535
              /\ DottedQuad(parts[1]) \/ DomainName(parts[1])

\* an accepted endpoint whose host has a hyphenated label and whose port is
\* the largest one
C8_Witness ==
    /\ Answered("isValidEndpoint") /\ answer
    /\ Includes(arg.s, "-")
    /\ Split(arg.s, ":")[2] = <<"6", "5", "5", "3", "5">>

----------------------------------------------------------------------------
(* C9, C10: numeric fields and the Address field *)

\* the text of v is a base-10 integer (an optional sign, then digits only)
\* with a value in [lo, hi]
IntegerIn(v, lo, hi) ==
    LET body == IF Len(v.s) > 0 /\ v.s[1] \in {"-", "+"} THEN Tail(v.s) ELSE v.s
    IN  /\ IsDecimal(body, 1, Len(body))
        /\ LET n == IF v.s[1] = "-" THEN 0 - DigitsValue(body) ELSE DigitsValue(body)
           IN  n >= lo /\ n <= hi

FormHasError(msg) == \E i \in 1..Len(result.errors) : result.errors[i].msg = msg

\* C9: an optional numeric field that is present with a non-empty value gets
\* its error unless the value is a base-10 integer inside the field's range:
\* MTU in [576, 65535] (text), PersistentKeepAlive in [0, 65535] (text and form).
C9_NumericFields ==
    /\ (Returned("validateWireguardConfig") /\ sections.parsed /\ KeyCount(sections.Interface) > 0)
       => LET v == GetProperty(sections.Interface, kMTU)
          IN  (Truthy(v) /\ ~IntegerIn(v, 576, 65535)) => HasError(5)
    /\ (Returned("validateWireguardConfig") /\ sections.parsed /\ KeyCount(sections.Peer) > 0)
       => LET v == GetProperty(sections.Peer, kPersistentKeepAlive)
          IN  (Truthy(v) /\ ~IntegerIn(v, 0, 65535)) => HasError(11)
    /\ Returned("validateFormData")
       => LET v == formData.PersistentKeepAlive
          IN  (Truthy(v) /\ ~IntegerIn(v, 0, 65535))
              => FormHasError("Invalid PersistentKeepAlive value (must be 0-65535)")

\* C10: validate_config splits Address on ',', trims the entries, accepts the
\* field when every entry is a valid CIDR and otherwise adds exactly one error
\* that names all the invalid entries; validate_form checks Address as one
\* CIDR value, so an Address with a ',' gets 'Invalid Address format' and
\* valid = false.
C10_AddressCardinality ==
    /\ (Returned("validateWireguardConfig") /\ sections.parsed /\ KeyCount(sections.Interface) > 0
        /\ Truthy(GetProperty(sections.Interface, kAddress)))
       => LET entries == Split(sections.Interface[kAddress], ",")
              invalid == SelectSeq([i \in 1..Len(entries) |-> Trim(entries[i])],
                                   LAMBDA x : ~isValidCIDR(Str(x)))
          IN  IF Len(invalid) = 0 THEN ~HasError(3)
              ELSE ErrorsAbout({3})
                     = <<[msg |-> "Invalid Address format (use CIDR notation, e.g., 10.0.0.2/24): ",
                          detail |-> Join(invalid, <<",", " ">>)]>>
    /\ (Returned("validateFormData") /\ Truthy(formData.Address))
       => /\ FormHasError("Invalid Address format (use CIDR notation, e.g., 10.0.0.2/24)")
             <=> ~isValidCIDR(formData.Address)
          /\ (formData.Address.t = "string" /\ Includes(formData.Address.s, ","))
             => /\ FormHasError("Invalid Address format (use CIDR notation, e.g., 10.0.0.2/24)")
                /\ ~result.valid

\* a form record whose Address is a comma-separated list of two valid CIDRs
C10_Witness ==
    /\ Returned("validateFormData")
    /\ formData.Address.t = "string"
    /\ LET entries == Split(formData.Address.s, ",")
       IN  Len(entries) = 2 /\ \A i \in 1..2 : isValidCIDR(Str(entries[i]))
    /\ FormHasError("Invalid Address format (use CIDR notation, e.g., 10.0.0.2/24)")

----------------------------------------------------------------------------
(* Calls one after another.  The module is loaded once: the pattern table  *)
(* and the arrays the calls create live as long as the process, and a      *)
(* behaviour is a sequence of calls of the two exported functions.         *)

\* the number of calls of a behaviour
MaxCalls == 3

\* a variant that keeps one array for all the calls
SharedArray(h) == 1

\* const errors = []: an array that did not exist before the call
NewArray(h) == Len(h) + 1

\* errors.push(...): the array at ref with the errors of the call added, a
\* new array starting empty
Pushed(h, ref, errs) ==
    IF ref > Len(h) THEN Append(h, errs) ELSE [h EXCEPT ![ref] = @ \o errs]

\* patterns[..].test(..): no pattern of the table carries the g or the y
\* flag, so a test neither reads nor writes lastIndex, and the table is
\* not exported
TableAfterCall(table) == table

CallArgs ==
    {Str(ConfigText(StandardLayout, ValidInterface, ValidPeer)),
     Str(ConfigText(StandardLayout, BadInterface, BadPeer)),
     Str(ConfigText(StandardLayout, ValidInterface, NoPeerFields)),
     Undefined, Num(5)}

CallForms == {ValidForm, BadForm, EmptyForm, MissingForm}

InitCalls ==
    /\ pc = "idle"
    /\ fn = "" /\ arg = Undefined /\ formData = MissingForm
    /\ sections = NotParsed /\ result = NoResult /\ answer = FALSE
    /\ InitCallVars /\ InitParserVars /\ InitServerVars

\* one call of validateWireguardConfig, from its entry to its return; the
\* early return hands out an array literal, the normal one the errors array
CallValidateWireguardConfig ==
    /\ pc = "idle" /\ Len(log) < MaxCalls
    /\ \E a \in CallArgs :
          LET secs == SectionsOf(a)
              r == validateWireguardConfig(a, secs)
              ref == NewArray(heap)
              h == IF secs.parsed THEN Pushed(heap, ref, r.errors)
                   ELSE Append(Pushed(heap, ref, <<>>), r.errors)
              out == IF secs.parsed THEN ref ELSE Len(h)
          IN  /\ fn' = "validateWireguardConfig" /\ arg' = a /\ formData' = MissingForm
              /\ sections' = secs
              /\ heap' = h
              /\ result' = Return(h[out])
              /\ log' = Append(log, [fn |-> fn', arg |-> a, formData |-> MissingForm,
                                     result |-> result', ref |-> out])
    /\ lastIndex' = TableAfterCall(lastIndex)
    /\ UNCHANGED <<pc, answer, parserVars, serverVars>>

\* one call of validateFormData, to its return or its throw (ref 0: nothing
\* is handed out)
CallValidateFormData ==
    /\ pc = "idle" /\ Len(log) < MaxCalls
    /\ \E fd \in CallForms :
          LET r == validateFormData(fd)
              ref == NewArray(heap)
              h == Pushed(heap, ref, r.errors)
          IN  /\ fn' = "validateFormData" /\ arg' = Undefined /\ formData' = fd
              /\ heap' = h
              /\ result' = IF r.kind = "throw" THEN TypeError ELSE Return(h[ref])
              /\ log' = Append(log, [fn |-> fn', arg |-> Undefined, formData |-> fd,
                                     result |-> result',
                                     ref |-> IF r.kind = "throw" THEN 0 ELSE ref])
    /\ lastIndex' = TableAfterCall(lastIndex)
    /\ UNCHANGED <<pc, sections, answer, parserVars, serverVars>>

NextCalls == CallValidateWireguardConfig \/ CallValidateFormData

SpecCalls == InitCalls /\ [][NextCalls]_vars

SameCall(a, b) == a.fn = b.fn /\ a.arg = b.arg /\ a.formData = b.formData

\* C11: the two functions keep no state between calls.  Two calls of the
\* same function on the same input give equal results whatever calls ran
\* before or in between, the pattern table is as it was built, and every
\* call returns an errors list that no other call returned or changed.
C11_NoStateBetweenCalls ==
    /\ lastIndex = NewTable
    /\ \A i \in 1..Len(log) :
          log[i].ref # 0 => heap[log[i].ref] = log[i].result.errors
    /\ \A i, j \in 1..Len(log) :
          i < j =>
             /\ log[i].ref # 0 => log[i].ref # log[j].ref
             /\ SameCall(log[i], log[j]) => log[i].result = log[j].result

\* a call that found errors, another call, and the first call again
C11_Witness ==
    /\ Len(log) = 3
    /\ SameCall(log[1], log[3]) /\ ~SameCall(log[1], log[2])
    /\ log[1].result.kind = "return" /\ Len(log[1].result.errors) > 1
    /\ Len(log[2].result.errors) > 0
    /\ log[3].result = log[1].result

----------------------------------------------------------------------------
(* parseConfigSections line by line: a behaviour is one run of the loop    *)
(* over the lines of a text, one iteration a step.                         *)

\* the number of lines of a text
MaxLines == 3

\* the lines of the texts: the two headers (one padded), assignments to one
\* key (one padded, with a second "="), an empty line, a comment, a line
\* without "=", bracketed lines that are no header, an assignment to __proto__
LinePool ==
    <<<<"[", "I", "n", "t", "e", "r", "f", "a", "c", "e", "]">>,
      <<" ", "[", "P", "e", "e", "r", "]", "\t">>,
      <<" ", "D", "N", "S", " ", "=", " ", "a", "=", "b", " ">>,
      <<"D", "N", "S", "=", "c">>,
      <<>>,
      <<"#", " ", "x", "=", "1">>,
      <<"M", "T", "U">>,
      <<"[", "p", "e", "e", "r", "]">>,
      <<"[", "P", "e", "e", "r", "]", " ", "x">>,
      <<"[", "P", "e", "e", "r", "=", "x", "]">>,
      <<"_", "_", "p", "r", "o", "t", "o", "_", "_", " ", "=", " ", "x">>>>

\* configString.split('\n') of the text being parsed
Lines == Split(arg.s, "\n")

InitParse ==
    /\ pc = "parse"
    /\ fn = "parseConfigSections" /\ formData = MissingForm
    /\ \E n \in 1..MaxLines : \E c \in [1..n -> 1..Len(LinePool)] :
          arg = Str(Join([i \in 1..n |-> LinePool[c[i]]], <<"\n">>))
    /\ sections = NotParsed
    /\ result = NoResult /\ answer = FALSE
    /\ InitCallVars /\ InitParserVars /\ InitServerVars

\* one iteration of for (const line of lines)
ParseNextLine ==
    /\ pc = "parse" /\ lineNo < Len(Lines)
    /\ LET st == ParseLine([currentSection |-> currentSection,
                            Interface |-> sections.Interface, Peer |-> sections.Peer],
                           Lines[lineNo + 1])
       IN  /\ currentSection' = st.currentSection
           /\ sections' = [sections EXCEPT !.Interface = st.Interface, !.Peer = st.Peer]
    /\ lineNo' = lineNo + 1
    /\ UNCHANGED <<pc, fn, arg, formData, result, answer, callVars, serverVars>>

\* return sections
ParseReturn ==
    /\ pc = "parse" /\ lineNo = Len(Lines)
    /\ sections' = [sections EXCEPT !.parsed = TRUE]
    /\ pc' = "done"
    /\ UNCHANGED <<fn, arg, formData, result, answer, callVars, parserVars, serverVars>>

NextParse == ParseNextLine \/ ParseReturn

SpecParse == InitParse /\ [][NextParse]_vars

\* the loop, run step by step, returns what parseConfigSections returns
ParseAgrees ==
    pc = "done" =>
       LET secs == parseConfigSections(arg.s)
       IN  sections.Interface = secs.Interface /\ sections.Peer = secs.Peer

\* where a trimmed line has its first "=" (0: nowhere)
FirstEq(t) == CHOOSE i \in 0..Len(t) :
                 /\ i # 0 => t[i] = "="
                 /\ \A j \in 1..Len(t) : t[j] = "=" => i # 0 /\ i <= j
KeyPart(t) == Trim(SubSeq(t, 1, FirstEq(t) - 1))
ValuePart(t) == Trim(SubSeq(t, FirstEq(t) + 1, Len(t)))
\* the mapping of the current section
Current(secs) == IF currentSection = "Interface" THEN secs.Interface ELSE secs.Peer
Other(secs) == IF currentSection = "Interface" THEN secs.Peer ELSE secs.Interface
\* the iteration stored the key and the value of the line in the current
\* section, replacing what the key held, and nothing else
StoredLine(t) ==
    LET key == KeyPart(t)
        old == Current(sections)
        new == Current(sections')
    IN  /\ DOMAIN new = DOMAIN old \cup {key}
        /\ new[key] = ValuePart(t)
        /\ \A k \in DOMAIN old : k # key => new[k] = old[k]
        /\ Other(sections') = Other(sections)
StoredNothing ==
    sections'.Interface = sections.Interface /\ sections'.Peer = sections.Peer
IsHeader(t) == t \in {InterfaceHeader, PeerHeader}
Bracketed(t) == Len(t) > 0 /\ t[1] = "["
\* an iteration of the loop is about to run
InLoop(lines) == pc = "parse" /\ lineNo < Len(lines)

\* C13: an iteration of the parser stores a pair only for a trimmed line
\* that contains "=" and comes after a recognized header; the pair is the
\* line split at its first "=" with both parts trimmed, and it replaces an
\* earlier value of the key in that section.  An empty line, a line starting
\* with "#", a line before any header and a line without "=" store nothing,
\* and the loop goes on to the next line.
C13_StoresAssignments ==
    [][LET lines == Lines
       IN  InLoop(lines) =>
              LET t == Trim(lines[lineNo + 1])
                  eq == FirstEq(t)
              IN  /\ StoredNothing \/ (currentSection # "null" /\ eq # 0 /\ StoredLine(t))
                  /\ (Len(t) = 0 \/ t[1] = "#" \/ currentSection = "null" \/ eq = 0)
                        => StoredNothing /\ lineNo' = lineNo + 1 /\ pc' = "parse"
                  /\ (Len(t) # 0 /\ t[1] # "#" /\ currentSection # "null" /\ eq # 0
                      /\ ~IsHeader(t) /\ KeyPart(t) # kProto)
                        => StoredLine(t)]_vars

\* the run of "[Interface]", "DNS=c", " DNS = a=b ": the padded line replaced
\* the value of DNS by the text after its first "="
C13_Witness ==
    /\ pc = "done"
    /\ Lines = <<LinePool[1], LinePool[4], LinePool[3]>>
    /\ DOMAIN sections.Interface = {kDNS}
    /\ sections.Interface[kDNS] = <<"a", "=", "b">>
    /\ sections.Peer = EmptyObject

\* C14 as stated: an iteration on a bracketed line other than the two headers
\* leaves the current section and both mappings as they were
C14_AsStated ==
    [][LET lines == Lines
       IN  InLoop(lines) =>
              LET t == Trim(lines[lineNo + 1])
              IN  (Bracketed(t) /\ ~IsHeader(t)) =>
                     currentSection' = currentSection /\ StoredNothing]_vars

\* C14: an iteration on a bracketed line other than the two headers leaves
\* the current section as it was; it stores nothing when the line has no "="
\* or no section is current, and otherwise stores the line like any other
\* assignment, the bracket being part of the key
C14_BracketedLines ==
    [][LET lines == Lines
       IN  InLoop(lines) =>
              LET t == Trim(lines[lineNo + 1])
                  eq == FirstEq(t)
              IN  (Bracketed(t) /\ ~IsHeader(t)) =>
                     /\ currentSection' = currentSection
                     /\ (eq = 0 \/ currentSection = "null") => StoredNothing
                     /\ (eq # 0 /\ currentSection # "null")
                           => StoredLine(t) /\ KeyPart(t)[1] = "["]_vars

\* the run of "[Interface]", "[peer]", "[Peer=x]": the section is still
\* Interface, and it holds the key "[Peer"
C14_Witness ==
    /\ pc = "done"
    /\ Lines = <<LinePool[1], LinePool[8], LinePool[10]>>
    /\ currentSection = "Interface"
    /\ DOMAIN sections.Interface = {<<"[", "P", "e", "e", "r">>}
    /\ sections.Interface[<<"[", "P", "e", "e", "r">>] = <<"x", "]">>
    /\ sections.Peer = EmptyObject

----------------------------------------------------------------------------
(* The two request handlers of app.js.  A behaviour is one request: the    *)
(* handler validates, answers or starts the QR encoding, and the encoding  *)
(* completes.  Which version of express the build installs is not fixed by *)
(* the sources, so a rejected promise of the async handler has both        *)
(* outcomes: forwarded to the error handler, or left unhandled.            *)

\* res.status(s).json({error, errors})
Response(status, error, errors) == [status |-> status, error |-> error, errors |-> errors]

ValidationFailed(errors) == Response(400, "Configuration validation failed", errors)
NoContent == Response(400, "No configuration file content provided", <<>>)
QrFailed == Response(500, "Failed to generate QR code", <<>>)
QrSent == Response(200, "", <<>>)
\* the answer of the default error handler of express
InternalError == Response(500, "Internal Server Error", <<>>)

InitServer ==
    /\ pc = "received"
    /\ \/ InitForm /\ request = [route |-> "/create-qr", hasBody |-> ~formData.missing]
       \/ InitConfig /\ request = [route |-> "/generate-qr", hasBody |-> TRUE]
       \/ /\ fn = "validateWireguardConfig" /\ arg = Undefined /\ formData = MissingForm
          /\ request = [route |-> "/generate-qr", hasBody |-> FALSE]
    /\ sections = NotParsed /\ result = NoResult /\ answer = FALSE
    /\ responses = <<>> /\ qrCodes = <<>>
    /\ InitCallVars /\ InitParserVars

\* POST /create-qr up to its await: destructure req.body, validate, answer
\* 400 or start QRCode.toDataURL; a throw rejects the handler's promise
CreateQr ==
    /\ pc = "received" /\ request.route = "/create-qr"
    /\ result' = validateFormData(formData)
    /\ IF result'.kind = "throw"
       THEN pc' = "rejected" /\ UNCHANGED <<responses, qrCodes>>
       ELSE IF ~result'.valid
       THEN /\ responses' = Append(responses, ValidationFailed(result'.errors))
            /\ pc' = "finished" /\ UNCHANGED qrCodes
       ELSE /\ qrCodes' = Append(qrCodes, request.route)
            /\ pc' = "encoding" /\ UNCHANGED responses
    /\ UNCHANGED <<fn, arg, formData, sections, answer, request, callVars, parserVars>>

\* express 5 passes the rejection to the error handler
RejectionForwarded ==
    /\ pc = "rejected"
    /\ responses' = Append(responses, InternalError)
    /\ pc' = "finished"
    /\ UNCHANGED <<fn, arg, formData, sections, result, answer, request, qrCodes, callVars, parserVars>>

\* express 4 drops the promise: nothing answers the request (its body
\* parser always leaves a record in req.body)
RejectionUnhandled ==
    /\ pc = "rejected" /\ request.hasBody
    /\ pc' = "finished"
    /\ UNCHANGED <<fn, arg, formData, sections, result, answer, serverVars, callVars, parserVars>>

\* POST /generate-qr up to the call of QRCode.toDataURL; a throw of the
\* synchronous handler goes to the error handler
GenerateQr ==
    /\ pc = "received" /\ request.route = "/generate-qr"
    /\ IF ~request.hasBody
       THEN /\ responses' = Append(responses, InternalError)
            /\ pc' = "finished" /\ UNCHANGED <<sections, result, qrCodes>>
       ELSE IF ~Truthy(arg)
       THEN /\ responses' = Append(responses, NoContent)
            /\ pc' = "finished" /\ UNCHANGED <<sections, result, qrCodes>>
       ELSE /\ sections' = SectionsOf(arg)
            /\ result' = validateWireguardConfig(arg, sections')
            /\ IF ~result'.valid
               THEN /\ responses' = Append(responses, ValidationFailed(result'.errors))
                    /\ pc' = "finished" /\ UNCHANGED qrCodes
               ELSE /\ qrCodes' = Append(qrCodes, request.route)
                    /\ pc' = "encoding" /\ UNCHANGED responses
    /\ UNCHANGED <<fn, arg, formData, answer, request, callVars, parserVars>>

\* the encoding completes: res.json({qrCode, config})
QrEncoded ==
    /\ pc = "encoding"
    /\ responses' = Append(responses, QrSent)
    /\ pc' = "finished"
    /\ UNCHANGED <<fn, arg, formData, sections, result, answer, request, qrCodes, callVars, parserVars>>

\* the encoding fails: the catch block, or the callback's err branch
QrError ==
    /\ pc = "encoding"
    /\ responses' = Append(responses, QrFailed)
    /\ pc' = "finished"
    /\ UNCHANGED <<fn, arg, formData, sections, result, answer, request, qrCodes, callVars, parserVars>>

NextServer ==
    \/ CreateQr \/ RejectionForwarded \/ RejectionUnhandled
    \/ GenerateQr \/ QrEncoded \/ QrError

SpecServer == InitServer /\ [][NextServer]_vars

\* QR encoding is started only after a validation that returned valid=true
QrOnlyWhenValid ==
    qrCodes # <<>> => result.kind = "return" /\ result.valid /\ Len(qrCodes) = 1

\* a request whose validation returned valid=false is answered 400 with the
\* errors, and nothing is encoded for it
InvalidAnswered400 ==
    (result.kind = "return" /\ ~result.valid) =>
        /\ pc = "finished"
        /\ responses = <<ValidationFailed(result.errors)>>
        /\ qrCodes = <<>>

\* a handler that has finished has sent one response, and none sends two
OneResponse ==
    /\ Len(responses) <= 1
    /\ pc = "finished" => Len(responses) = 1

\* C12: in both handlers validation runs before QR encoding, QR encoding is
\* started only for a request whose validation returned valid=true, a
\* request whose validation returned valid=false gets status 400 with the
\* error list and no QR code, and each request gets exactly one response.
C12_ValidateThenEncode == QrOnlyWhenValid /\ InvalidAnswered400 /\ OneResponse

----------------------------------------------------------------------------
(* The two paths side by side: validateFormData on a form record, then     *)
(* validateWireguardConfig on the text that lists the record's fields.     *)

\* a field of a record as a field of a text: absent, or its text
FieldOf(v) == IF v = Undefined THEN Absent ELSE Present(v.s)

\* the text listing the fields of a form record under the two headers
FormText(fd) ==
    ConfigText(StandardLayout,
               [PrivateKey |-> FieldOf(fd.PrivateKey), Address |-> FieldOf(fd.Address),
                DNS |-> FieldOf(fd.DNS), MTU |-> Absent],
               [PublicKey |-> FieldOf(fd.PublicKey), Endpoint |-> FieldOf(fd.Endpoint),
                AllowedIPs |-> FieldOf(fd.AllowedIPs),
                PreSharedKey |-> FieldOf(fd.PreSharedKey),
                PersistentKeepAlive |-> FieldOf(fd.PersistentKeepAlive)])

InitPair ==
    /\ pc = "idle"
    /\ fn = "" /\ arg = Undefined
    /\ \/ \E c \in FormChoices : formData = Chosen(ValidForm, FormPool, FormKeys, c)
       \/ formData \in {BadForm, EmptyForm}
    /\ sections = NotParsed /\ result = NoResult /\ answer = FALSE
    /\ InitCallVars /\ InitParserVars /\ InitServerVars

\* validateFormData(formData)
PairValidateFormData ==
    /\ pc = "idle" /\ Len(log) = 0
    /\ fn' = "validateFormData"
    /\ result' = validateFormData(formData)
    /\ log' = Append(log, [fn |-> fn', arg |-> arg, formData |-> formData,
                           result |-> result', ref |-> 0])
    /\ UNCHANGED <<pc, arg, formData, sections, answer, lastIndex, heap, parserVars, serverVars>>

\* validateWireguardConfig(text of formData)
PairValidateWireguardConfig ==
    /\ pc = "idle" /\ Len(log) = 1
    /\ fn' = "validateWireguardConfig"
    /\ arg' = Str(FormText(formData))
    /\ sections' = SectionsOf(arg')
    /\ result' = validateWireguardConfig(arg', sections')
    /\ log' = Append(log, [fn |-> fn', arg |-> arg', formData |-> formData,
                           result |-> result', ref |-> 0])
    /\ UNCHANGED <<pc, formData, answer, lastIndex, heap, parserVars, serverVars>>

NextPair == PairValidateFormData \/ PairValidateWireguardConfig

SpecPair == InitPair /\ [][NextPair]_vars

\* absent, or a string with no white space at either end and no line break
PlainField(v) ==
    \/ v = Undefined
    \/ /\ IsString(v)
       /\ Len(v.s) > 0 => v.s[1] \notin WhiteSpace /\ v.s[Len(v.s)] \notin WhiteSpace
       /\ \A i \in 1..Len(v.s) : v.s[i] \notin {"\n", "\r"}

\* a record of plain fields whose Address holds no comma
PlainForm(fd) ==
    /\ ~fd.missing
    /\ \A k \in 1..Len(FormKeys) : PlainField(fd[FormKeys[k]])
    /\ fd.Address # Undefined => \A i \in 1..Len(fd.Address.s) : fd.Address.s[i] # ","

\* C15: for a form record of strings without surrounding white space or
\* line breaks, with a single Address and no MTU, validateFormData returns
\* valid=true exactly when validateWireguardConfig returns valid=true on the
\* text that lists the same values under [Interface] and [Peer].
C15_SameRules ==
    (Len(log) = 2 /\ PlainForm(formData)) =>
        /\ log[1].result.kind = "return" /\ log[2].result.kind = "return"
        /\ log[1].result.valid = log[2].result.valid

\* both paths accepted a record with a DNS list and without the optional
\* PreSharedKey
C15_Witness ==
    /\ Len(log) = 2 /\ PlainForm(formData)
    /\ formData.PreSharedKey = Undefined
    /\ Len(Split(formData.DNS.s, ",")) = 2
    /\ log[1].result.valid /\ log[2].result.valid

\* both paths rejected a plain record
PairBothReject ==
    /\ Len(log) = 2 /\ PlainForm(formData)
    /\ ~log[1].result.valid /\ ~log[2].result.valid

\* without the conditions on the record the paths differ
PairAlwaysAgree == Len(log) = 2 => log[1].result.valid = log[2].result.valid

====
